---- MODULE Spec2Model ----
(***************************************************************************)
(* Model of credit.py / economic_engineering.py: the business-day-aware    *)
(* payment-date generator (get_payment_dates), the payment-amount solver   *)
(* (calculate_payment_amount) and the command-line program (__main__).     *)
(*                                                                         *)
(* Dates are records [year, month, day] (datetime at midnight).  Amounts   *)
(* and rates are exact rationals <<numerator, denominator>>.               *)
(***************************************************************************)
EXTENDS Integers, Sequences, FiniteSets, TLC

VARIABLES
    caller,         \* entry point of the run
    pc,             \* position in the code
    raised,         \* "none", or the exception that ended the run
    buy_date,       \* purchase date (a date, or "malformed" before parsing)
    payment_day,    \* target day of month
    timesteps,      \* number of periods
    payday,         \* get_payment_dates: the running reference date
    paydays,        \* get_payment_dates: the list being built / returned
    capital,        \* calculate_payment_amount: amount borrowed
    i_edr,          \* calculate_payment_amount: effective daily rate
    payment_dates,  \* calculate_payment_amount: its list of dates
    Eq,             \* the equation const - coef*F = 0 built so far
    idx,            \* number of dates already consumed by the for loop
    F_val,          \* root returned by nsolve
    plan,           \* (rounded_val, last_val) returned
    stdout          \* lines printed by __main__

vars == <<caller, pc, raised, buy_date, payment_day, timesteps, payday, paydays,
          capital, i_edr, payment_dates, Eq, idx, F_val, plan, stdout>>

(***************************** bounds ***************************************)
FirstYear     == 2021
NumYears      == 1
MaxTimesteps  == 2
MaxGap        == 3
MaxDates      == 2

(************************* exact rational numbers ***************************)
RECURSIVE Gcd(_, _)
Gcd(a, b) == IF b = 0 THEN a ELSE Gcd(b, a % b)

Abs(a) == IF a < 0 THEN 0 - a ELSE a

\* n/d in lowest terms with a positive denominator
Rat(n, d) ==
    LET g == Gcd(Abs(n), Abs(d))
        s == IF d < 0 THEN 0 - 1 ELSE 1
    IN  <<s * (n \div g), s * (d \div g)>>

RInt(n)    == <<n, 1>>
RAdd(a, b) ==
    LET g == Gcd(a[2], b[2])
    IN  Rat(a[1] * (b[2] \div g) + b[1] * (a[2] \div g), (a[2] \div g) * b[2])
RNeg(a)    == <<0 - a[1], a[2]>>
RSub(a, b) == RAdd(a, RNeg(b))
RMul(a, b) ==
    LET x == Rat(a[1], b[2])
        y == Rat(b[1], a[2])
    IN  <<x[1] * y[1], x[2] * y[2]>>
RInv(a)    == Rat(a[2], a[1])
RDiv(a, b) == RMul(a, RInv(b))
RLeq(a, b) == RSub(a, b)[1] <= 0
RAbs(a)    == <<Abs(a[1]), a[2]>>

RECURSIVE RPow(_, _)
RPow(a, n) == IF n = 0 THEN RInt(1)
              ELSE IF n < 0 THEN RInv(RPow(a, 0 - n))
              ELSE RMul(a, RPow(a, n - 1))

\* floor of a rational
RFloor(a) == a[1] \div a[2]

(************************ calendar arithmetic *******************************)
Date(y, m, d) == [year |-> y, month |-> m, day |-> d]

isleap(y) == (y % 4 = 0) /\ ((y % 100 # 0) \/ (y % 400 = 0))

monthrange(y, m) ==
    IF m = 2 THEN (IF isleap(y) THEN 29 ELSE 28)
    ELSE IF m \in {4, 6, 9, 11} THEN 30 ELSE 31

days_before_month(y, m) ==
    LET t == <<0, 31, 59, 90, 120, 151, 181, 212, 243, 273, 304, 334>>
    IN  t[m] + (IF m > 2 /\ isleap(y) THEN 1 ELSE 0)

days_before_year(y) ==
    (y - 1) * 365 + ((y - 1) \div 4) - ((y - 1) \div 100) + ((y - 1) \div 400)

toordinal(dt) == days_before_year(dt.year) + days_before_month(dt.year, dt.month) + dt.day

\* Monday = 0 ... Sunday = 6
weekday(dt) == (toordinal(dt) + 6) % 7

NextDay(dt) ==
    IF dt.day < monthrange(dt.year, dt.month) THEN Date(dt.year, dt.month, dt.day + 1)
    ELSE IF dt.month < 12 THEN Date(dt.year, dt.month + 1, 1)
    ELSE Date(dt.year + 1, 1, 1)

\* (date - buy_date).days
days_between(a, b) == toordinal(b) - toordinal(a)

\* relativedelta(day=d) without months=1: the day is set, the month is kept
relativedelta_day_only(dt, d) ==
    Date(dt.year, dt.month,
         IF d < monthrange(dt.year, dt.month) THEN d ELSE monthrange(dt.year, dt.month))

\* dt + relativedelta(day=d, months=1)
relativedelta(dt, d) ==
    LET y == IF dt.month = 12 THEN dt.year + 1 ELSE dt.year
        m == IF dt.month = 12 THEN 1 ELSE dt.month + 1
    IN  Date(y, m, IF d < monthrange(y, m) THEN d ELSE monthrange(y, m))

(**************************** holiday calendar ******************************)
\* Easter(): Easter Sunday of year y (western, Gregorian)
Easter(y) ==
    LET g == y % 19
        c == y \div 100
        h == (c - (c \div 4) - ((8 * c + 13) \div 25) + 19 * g + 15) % 30
        i == h - (h \div 28) * (1 - (h \div 28) * (29 \div (h + 1)) * ((21 - g) \div 11))
        j == (y + (y \div 4) + i + 2 - c + (c \div 4)) % 7
        p == i - j
    IN  Date(y, 3 + ((p + 26) \div 30), 1 + ((p + 27 + ((p + 6) \div 40)) % 31))

\* observance=nearest_workday: Saturday -> Friday before, Sunday -> Monday after;
\* the result as an ordinal
nearest_workday(dt) ==
    IF weekday(dt) = 5 THEN toordinal(dt) - 1
    ELSE IF weekday(dt) = 6 THEN toordinal(dt) + 1
    ELSE toordinal(dt)

\* PeruHolidayCalendar.rules: is dt one of the 15 holidays
PeruHolidayCalendar(dt) ==
    LET y == dt.year
        o == toordinal(dt)
        fixed(m, d) == dt.month = m /\ dt.day = d
        observed(m, d) == \E yy \in {y, y + 1} : nearest_workday(Date(yy, m, d)) = o
    IN  \/ observed(1, 1)                       \* New Year's Day
        \/ observed(1, 2)                       \* New Year's 2nd Day
        \/ toordinal(Easter(y)) - 3 = o         \* Jueves Santo
        \/ fixed(5, 1)                          \* Dia del trabajo
        \/ toordinal(Easter(y)) - 2 = o         \* Viernes Santo
        \/ fixed(6, 29)                         \* San Pedro y San Pablo
        \/ fixed(7, 28)                         \* Dia de la independencia 1
        \/ fixed(7, 29)                         \* Dia de la independencia 2
        \/ fixed(8, 6)                          \* Batalla de Junin
        \/ fixed(8, 30)                         \* Santa Rosa de Lima
        \/ fixed(10, 8)                         \* Combate de Angamos
        \/ fixed(11, 1)                         \* Dia de todos los santos
        \/ fixed(12, 8)                         \* Dia de la Inmaculada Concepcion
        \/ fixed(12, 9)                         \* Batalla de Ayacucho
        \/ fixed(12, 25)                        \* Navidad

\* a business-day offset that knows the weekend but not the calendar
offseter_weekmask_only(dt) == weekday(dt) < 5

\* offseter = CustomBusinessDay(calendar=PeruHolidayCalendar()): the days on
\* the offset are Monday..Friday that are not holidays of the calendar
offseter(dt) == weekday(dt) < 5 /\ ~PeruHolidayCalendar(dt)

\* a roll that always moves: the first day on the offset after dt
RECURSIVE rollforward_next(_)
rollforward_next(dt) ==
    IF offseter(NextDay(dt)) THEN NextDay(dt) ELSE rollforward_next(NextDay(dt))

\* offseter.rollforward(date): date itself when it is on the offset,
\* otherwise the next day that is
RECURSIVE rollforward(_)
rollforward(dt) == IF offseter(dt) THEN dt ELSE rollforward(NextDay(dt))

is_business_day(dt) == dt = rollforward(dt)

(******************************* inputs *************************************)
Years == FirstYear .. (FirstYear + NumYears - 1)

Dates == { dt \in { Date(y, m, d) : y \in Years, m \in 1..12, d \in 1..31 } :
               dt.day <= monthrange(dt.year, dt.month) }

NoDate == Date(0, 0, 0)
NoRat  == <<0, 1>>
NoEq   == [const |-> NoRat, coef |-> NoRat]

(*************************** get_payment_dates ******************************)
InitDates ==
    /\ caller = "get_payment_dates"
    /\ pc = "start"
    /\ raised = "none"
    /\ buy_date \in Dates
    /\ payment_day \in 1..31
    /\ timesteps \in -1..MaxTimesteps
    /\ payday = NoDate
    /\ paydays = <<>>
    /\ capital = NoRat /\ i_edr = NoRat /\ payment_dates = <<>>
    /\ Eq = NoEq /\ idx = 0 /\ F_val = NoRat /\ plan = <<>>
    /\ stdout = <<>>

\* the first reference taken in the month of the purchase itself
FirstPayday_closest ==
    /\ pc = "start"
    /\ payday' = relativedelta_day_only(buy_date, payment_day)
    /\ paydays' = <<>>
    /\ pc' = "loop"
    /\ UNCHANGED <<caller, raised, buy_date, payment_day, timesteps, capital, i_edr,
                   payment_dates, Eq, idx, F_val, plan, stdout>>

\* lines 86-94
FirstPayday ==
    /\ pc = "start"
    /\ payday' = relativedelta(buy_date, payment_day)
    /\ paydays' = <<>>
    /\ pc' = "loop"
    /\ UNCHANGED <<caller, raised, buy_date, payment_day, timesteps, capital, i_edr,
                   payment_dates, Eq, idx, F_val, plan, stdout>>

\* one iteration of the for loop, lines 95-103
NextPayday ==
    /\ pc = "loop"
    /\ Len(paydays) < timesteps
    /\ LET p == relativedelta(payday, payment_day)
           q == IF ~is_business_day(p) THEN rollforward(p) ELSE p
       IN  /\ payday' = q
           /\ paydays' = Append(paydays, q)
    /\ UNCHANGED <<caller, pc, raised, buy_date, payment_day, timesteps, capital, i_edr,
                   payment_dates, Eq, idx, F_val, plan, stdout>>

\* a return one iteration early
ReturnPaydays_early ==
    /\ pc = "loop"
    /\ Len(paydays) >= timesteps - 1
    /\ pc' = IF caller = "__main__" THEN "main_amount" ELSE "done"
    /\ UNCHANGED <<caller, raised, buy_date, payment_day, timesteps, payday, paydays,
                   capital, i_edr, payment_dates, Eq, idx, F_val, plan, stdout>>

\* line 105
ReturnPaydays ==
    /\ pc = "loop"
    /\ Len(paydays) >= timesteps
    /\ pc' = IF caller = "__main__" THEN "main_amount" ELSE "done"
    /\ UNCHANGED <<caller, raised, buy_date, payment_day, timesteps, payday, paydays,
                   capital, i_edr, payment_dates, Eq, idx, F_val, plan, stdout>>

NextDates == FirstPayday \/ NextPayday \/ ReturnPaydays

Spec == InitDates /\ [][NextDates]_vars

(************************ economic_engineering.py ***************************)
\* compounding where discounting is meant: F * ((1 + i) ** n)
p_given_f_compounded(F, i, n) == RMul(F, RPow(RAdd(RInt(1), i), n))

\* Present value of a unique amount in the future: F * (1 / ((1 + i) ** n))
p_given_f(F, i, n) == RMul(F, RDiv(RInt(1), RPow(RAdd(RInt(1), i), n)))

(*********************** calculate_payment_amount ***************************)
\* the value of the expression Eq at F = x
EqAt(eq, x) == RSub(eq.const, RMul(eq.coef, x))

\* nsolve([Eq], [F_sym], [x0]): Newton's method with the symbolic Jacobian.
\* Eq is linear in F, so the first step x0 - Eq(x0)/Eq' lands on the root;
\* a zero Jacobian makes the linear solve fail.
nsolve(eq, x0) ==
    LET J == RNeg(eq.coef)
    IN  IF J[1] = 0 THEN [ok |-> FALSE, x |-> x0]
        ELSE [ok |-> TRUE, x |-> RSub(x0, RDiv(EqAt(eq, x0), J))]

\* round(x, 2): nearest multiple of 1/100, ties to the even one
round2(x) ==
    LET t == RMul(x, RInt(100))
        f == RFloor(t)
        r == RSub(t, RInt(f))
        c == IF r[1] * 2 < r[2] THEN f
             ELSE IF r[1] * 2 > r[2] THEN f + 1
             ELSE IF f % 2 = 0 THEN f ELSE f + 1
    IN  Rat(c, 100)

\* the dates MaxGap days on from dt
RECURSIVE DaysFrom(_, _)
DaysFrom(dt, n) == IF n = 0 THEN {dt} ELSE {dt} \cup DaysFrom(NextDay(dt), n - 1)

\* all lists of at most n elements of S
RECURSIVE Lists(_, _)
Lists(S, n) == IF n = 0 THEN {<<>>}
               ELSE Lists(S, n - 1) \cup { Append(l, x) : l \in Lists(S, n - 1), x \in S }

InitAmount ==
    /\ caller = "calculate_payment_amount"
    /\ pc = "build"
    /\ raised = "none"
    /\ buy_date \in { Date(FirstYear, 2, 27), Date(FirstYear, 12, 30) }
    /\ payment_day = 0 /\ timesteps = 0 /\ payday = NoDate /\ paydays = <<>>
    /\ capital \in { RInt(0 - 1), RInt(0), RInt(1), RInt(3) }
    /\ i_edr \in { RInt(0), Rat(1, 10), Rat(0 - 1, 2) }
    /\ payment_dates \in Lists(DaysFrom(buy_date, MaxGap), MaxDates)
    /\ Eq = NoEq /\ idx = 0 /\ F_val = NoRat /\ plan = <<>>
    /\ stdout = <<>>

\* lines 129-131
BuildEq ==
    /\ pc = "build"
    /\ Eq' = [const |-> capital, coef |-> RInt(0)]
    /\ idx' = 0
    /\ pc' = "terms"
    /\ UNCHANGED <<caller, raised, buy_date, payment_day, timesteps, payday, paydays,
                   capital, i_edr, payment_dates, F_val, plan, stdout>>

\* one iteration of the for loop, lines 132-134
AddTerm ==
    /\ pc = "terms"
    /\ idx < Len(payment_dates)
    /\ LET date == payment_dates[idx + 1]
           days == days_between(buy_date, date)
       IN  Eq' = [Eq EXCEPT !.coef = RAdd(@, p_given_f(RInt(1), i_edr, days))]
    /\ idx' = idx + 1
    /\ UNCHANGED <<caller, pc, raised, buy_date, payment_day, timesteps, payday, paydays,
                   capital, i_edr, payment_dates, F_val, plan, stdout>>

\* line 136
Solve ==
    /\ pc = "terms"
    /\ idx >= Len(payment_dates)
    /\ LET res == nsolve(Eq, RInt(1))
       IN  IF res.ok
           THEN /\ F_val' = res.x
                /\ pc' = "solved"
                /\ raised' = raised
           ELSE /\ F_val' = F_val
                /\ pc' = "failed"
                /\ raised' = "ZeroDivisionError"
    /\ UNCHANGED <<caller, buy_date, payment_day, timesteps, payday, paydays,
                   capital, i_edr, payment_dates, Eq, idx, plan, stdout>>

\* lines 138-143
RoundPlan ==
    /\ pc = "solved"
    /\ LET rounded_val == round2(F_val)
           last_val == round2(RAdd(F_val, RMul(RSub(F_val, rounded_val),
                                               RInt(Len(payment_dates)))))
       IN  plan' = <<rounded_val, last_val>>
    /\ pc' = "done"
    /\ UNCHANGED <<caller, raised, buy_date, payment_day, timesteps, payday, paydays,
                   capital, i_edr, payment_dates, Eq, idx, F_val, stdout>>

NextAmount == BuildEq \/ AddTerm \/ Solve \/ RoundPlan

SpecAmount == InitAmount /\ [][NextAmount]_vars

\* either function called on its own
SpecCalls == (InitDates \/ InitAmount) /\ [][NextDates \/ NextAmount]_vars

(******************************* __main__ ***********************************)
\* BUY_DATE is the configured string DD/MM/YYYY, held as its three numbers;
\* 30/02/YYYY is a string strptime rejects
InitMain ==
    /\ caller = "__main__"
    /\ pc = "main"
    /\ raised = "none"
    /\ buy_date \in { Date(FirstYear, 2, d) : d \in 1..31 }
    /\ payment_day \in 1..31
    /\ timesteps \in 0..MaxTimesteps
    /\ payday = NoDate /\ paydays = <<>>
    /\ capital = NoRat /\ i_edr = NoRat /\ payment_dates = <<>>
    /\ Eq = NoEq /\ idx = 0 /\ F_val = NoRat /\ plan = <<>>
    /\ stdout = <<>>

\* lines 149-170: rate conversions, the simple calculation and its print
MainSimple ==
    /\ pc = "main"
    /\ stdout' = Append(stdout, "Periodic payment (simple calculation)")
    /\ pc' = "main_parse"
    /\ UNCHANGED <<caller, raised, buy_date, payment_day, timesteps, payday, paydays,
                   capital, i_edr, payment_dates, Eq, idx, F_val, plan>>

\* line 173: dt.datetime.strptime(buy_date, DATE_FORMAT), then the call of line 174
MainParse ==
    /\ pc = "main_parse"
    /\ IF buy_date.day <= monthrange(buy_date.year, buy_date.month)
       THEN pc' = "start" /\ raised' = raised
       ELSE pc' = "failed" /\ raised' = "ValueError"
    /\ UNCHANGED <<caller, buy_date, payment_day, timesteps, payday, paydays,
                   capital, i_edr, payment_dates, Eq, idx, F_val, plan, stdout>>

\* line 175: calculate_payment_amount on the generated dates; with no date the
\* equation has no F in it and the solve fails
MainAmount ==
    /\ pc = "main_amount"
    /\ payment_dates' = paydays
    /\ IF Len(paydays) = 0
       THEN pc' = "failed" /\ raised' = "ZeroDivisionError" /\ plan' = plan
       ELSE pc' = "main_print" /\ raised' = raised /\ plan' = <<"A", "last_A">>
    /\ UNCHANGED <<caller, buy_date, payment_day, timesteps, payday, paydays,
                   capital, i_edr, Eq, idx, F_val, stdout>>

\* lines 176-177
MainPrint ==
    /\ pc = "main_print"
    /\ stdout' = stdout \o <<"Periodic payment (exact calculation)",
                             "Last payment (exact calculation)">>
    /\ pc' = "done"
    /\ UNCHANGED <<caller, raised, buy_date, payment_day, timesteps, payday, paydays,
                   capital, i_edr, payment_dates, Eq, idx, F_val, plan>>

NextMain == MainSimple \/ MainParse \/ FirstPayday \/ NextPayday \/ ReturnPaydays
            \/ MainAmount \/ MainPrint

SpecMain == InitMain /\ [][NextMain]_vars

(***************************** rollforward **********************************)
\* the roll applied to a date, and applied again to its result
InitRoll ==
    /\ caller = "rollforward"
    /\ pc = "start"
    /\ raised = "none"
    /\ buy_date = NoDate /\ payment_day = 0 /\ timesteps = 0
    /\ payday \in Dates
    /\ paydays = <<>>
    /\ capital = NoRat /\ i_edr = NoRat /\ payment_dates = <<>>
    /\ Eq = NoEq /\ idx = 0 /\ F_val = NoRat /\ plan = <<>>
    /\ stdout = <<>>

RollOnce ==
    /\ pc = "start"
    /\ paydays' = <<rollforward(payday)>>
    /\ pc' = "rolled"
    /\ UNCHANGED <<caller, raised, buy_date, payment_day, timesteps, payday, capital,
                   i_edr, payment_dates, Eq, idx, F_val, plan, stdout>>

RollAgain ==
    /\ pc = "rolled"
    /\ paydays' = Append(paydays, rollforward(paydays[1]))
    /\ pc' = "done"
    /\ UNCHANGED <<caller, raised, buy_date, payment_day, timesteps, payday, capital,
                   i_edr, payment_dates, Eq, idx, F_val, plan, stdout>>

NextRoll == RollOnce \/ RollAgain

SpecRoll == InitRoll /\ [][NextRoll]_vars

(******************************* properties *********************************)
\* the theoretical payment date k months after the month of dt: day d of that
\* month, or its last day when the month is shorter
Nominal(dt, k, d) ==
    LET t == dt.year * 12 + (dt.month - 1) + k
        y == t \div 12
        m == (t % 12) + 1
    IN  Date(y, m, IF d < monthrange(y, m) THEN d ELSE monthrange(y, m))

\* neither a Saturday nor a Sunday nor a holiday
BusinessDay(dt) == weekday(dt) \notin {5, 6} /\ ~PeruHolidayCalendar(dt)

Returned == caller = "get_payment_dates" /\ pc = "done"

\* C1: every date returned by get_payment_dates is neither a Saturday nor a
\* Sunday nor a holiday of the Peru calendar.
C1_PaydaysAreBusinessDays ==
    (Returned /\ timesteps >= 1) =>
        \A k \in 1..Len(paydays) : BusinessDay(paydays[k])

\* a returned first date whose theoretical date was a holiday on a weekday
C1_Witness ==
    /\ Returned /\ Len(paydays) >= 1
    /\ weekday(Nominal(buy_date, 2, payment_day)) < 5
    /\ PeruHolidayCalendar(Nominal(buy_date, 2, payment_day))

C3_ExactlyPeriodCount ==
    (Returned /\ timesteps >= 1) => Len(paydays) = timesteps

\* a returned list of two dates
C3_Witness == Returned /\ timesteps = 2 /\ Len(paydays) = 2

\* C4: the returned dates are strictly increasing and each is strictly later
\* than the purchase date.
C4_StrictlyIncreasing ==
    Returned =>
        \A k \in 1..Len(paydays) :
            /\ toordinal(paydays[k]) > toordinal(buy_date)
            /\ k > 1 => toordinal(paydays[k]) > toordinal(paydays[k - 1])

\* two returned dates, the first rolled over the end of its month
C4_Witness ==
    /\ Returned /\ Len(paydays) >= 2
    /\ paydays[1].month # Nominal(buy_date, 2, payment_day).month

\* the sum over all dates of the list of the present value of x
RECURSIVE SumPresentValues(_, _)
SumPresentValues(x, k) ==
    IF k = 0 THEN RInt(0)
    ELSE RAdd(SumPresentValues(x, k - 1),
              RDiv(x, RPow(RAdd(RInt(1), i_edr),
                           toordinal(payment_dates[k]) - toordinal(buy_date))))

\* C5: the unrounded amount F found satisfies
\* capital = sum over all N payment dates d of F * (1 + dailyRate)^(-days(d)).
C5_SolvedAmountZeroesEquation ==
    (caller = "calculate_payment_amount" /\ pc \in {"solved", "done"}) =>
        capital = SumPresentValues(F_val, Len(payment_dates))

\* an amount solved for two different dates at a nonzero rate
C5_Witness ==
    /\ caller = "calculate_payment_amount" /\ pc = "solved"
    /\ Len(payment_dates) = 2 /\ payment_dates[1] # payment_dates[2]
    /\ i_edr[1] # 0 /\ capital[1] > 0

\* C6: constantAmount * (N-1) + finalAmount equals N * F up to the rounding of
\* the final payment, a difference of at most 0.005.
C6_PlanCollectsUnroundedTotal ==
    (caller = "calculate_payment_amount" /\ pc = "done") =>
        LET N == Len(payment_dates)
            total == RAdd(RMul(plan[1], RInt(N - 1)), plan[2])
        IN  RLeq(RAbs(RSub(total, RMul(RInt(N), F_val))), Rat(5, 1000))

\* C7: when a step of the program fails no result line has been written; a
\* run prints all three lines or none.
C7_NoPartialOutput ==
    caller = "__main__" =>
        /\ raised # "none" => stdout = <<>>
        /\ pc \in {"done", "failed"} => Len(stdout) \in {0, 3}

\* C8: a period count <= 0, a capital <= 0 or an empty list of payment dates
\* ends in a DomainError and returns neither dates nor a plan.
C8_InvalidTermsRejected ==
    LET invalid == \/ caller = "get_payment_dates" /\ timesteps <= 0
                   \/ caller = "calculate_payment_amount"
                        /\ (capital[1] <= 0 \/ payment_dates = <<>>)
    IN  (invalid /\ pc \in {"done", "failed"}) =>
            raised = "DomainError" /\ pc = "failed" /\ plan = <<>>

\* C9: the k-th returned date is the theoretical date of month M+1+k rolled
\* forward; a roll over a month boundary does not move any later payment.
C9_EachMonthHasItsPayday ==
    Returned =>
        \A k \in 1..Len(paydays) :
            paydays[k] = rollforward(Nominal(buy_date, 1 + k, payment_day))

\* no day from a up to but not including b is a business day
RECURSIVE NoBusinessDayIn(_, _)
NoBusinessDayIn(a, b) ==
    IF toordinal(a) >= toordinal(b) THEN TRUE
    ELSE ~BusinessDay(a) /\ NoBusinessDayIn(NextDay(a), b)

\* C10: rollforward returns a business day unchanged and otherwise the first
\* business day after it, so rolling twice is rolling once, and
\* is_business_day holds exactly when the roll returns its argument.
C10_RollforwardIdempotent ==
    (caller = "rollforward" /\ pc = "done") =>
        /\ paydays[2] = paydays[1]
        /\ BusinessDay(payday) => paydays[1] = payday
        /\ ~BusinessDay(payday) =>
              /\ toordinal(paydays[1]) > toordinal(payday)
              /\ BusinessDay(paydays[1])
              /\ NoBusinessDayIn(payday, paydays[1])
        /\ is_business_day(payday) <=> (paydays[1] = payday)
        /\ is_business_day(payday) <=> BusinessDay(payday)

\* a holiday on a weekday rolled forward, and rolled again
C10_Witness ==
    /\ caller = "rollforward" /\ pc = "done"
    /\ PeruHolidayCalendar(payday) /\ weekday(payday) < 5
    /\ paydays[1] # payday

====
